---------------------------- MODULE Spec2Model ----------------------------
(***************************************************************************)
(* Model of gammapy/utils/modeling.py: Parameter, ParameterList, the       *)
(* spectral / spatial model variants with their dispatchers, SourceModel   *)
(* and SourceLibrary with the XML writer and reader.                       *)
(*                                                                         *)
(* The file carries unresolved merge markers (lines 25-28, 101-110,        *)
(* 176-182).  The HEAD side is modelled: it is the side that imports       *)
(* numpy, which set_parameter_errors (line 249) needs.                     *)
(*                                                                         *)
(* Python values are records with a cls field, so that values of different *)
(* Python types can be told apart.  A float is a fixed-point number k /    *)
(* Scale; a text that float() reads or format() writes is a sequence of    *)
(* one-character strings.                                                  *)
(***************************************************************************)
EXTENDS Integers, Sequences, FiniteSets, TLC

VARIABLES self, op, arg, ret, prev

vars == <<self, op, arg, ret, prev>>

(***************************************************************************)
(* Bounds of the model.                                                    *)
(***************************************************************************)
\* number of decimal digits a modelled float keeps after the point
FracDigits == 2
\* longest parameter list given to a constructor or an XML element
MaxParams == 2
\* longest source list of a SourceLibrary
MaxSources == 2

RECURSIVE Pow10(_)
Pow10(n) == IF n = 0 THEN 1 ELSE 10 * Pow10(n - 1)

Scale == Pow10(FracDigits)

(***************************************************************************)
(* Python values.                                                          *)
(***************************************************************************)
None == [cls |-> "NoneType"]

Float(k) == [cls |-> "float", k |-> k]

PyInt(n) == [cls |-> "int", k |-> n * Scale]

\* Python's ==  on numbers: 0 == 0.0
NumEq(a, b) == a.k = b.k

Str(s) == [cls |-> "str", s |-> s]

List(items) == [cls |-> "list", items |-> items]

Dict(kv) == [cls |-> "dict", kv |-> kv]

HasKey(d, key) == key \in DOMAIN d.kv

Quantity(value, unit) == [cls |-> "Quantity", value |-> value, unit |-> unit]

Raise(exc, text, fmt) == [cls |-> exc, text |-> text, fmt |-> fmt]

Exceptions ==
    {"KeyError", "ValueError", "TypeError", "AttributeError", "IndexError",
     "ZeroDivisionError", "UnknownModelError", "NoDataAvailableError",
     "UnitConversionError"}

IsError(v) == v.cls \in Exceptions

\* F(v), with v evaluated once however often F uses it
Bind(v, F(_)) == CHOOSE r \in {F(x) : x \in {v}} : TRUE

\* sequences over S of length lo..hi
SeqsOf(S, lo, hi) == UNION {[1..n -> S] : n \in lo..hi}

(***************************************************************************)
(* float(text) and format(number), lines 138, 148 and 153.                 *)
(***************************************************************************)
Digits == <<"0", "1", "2", "3", "4", "5", "6", "7", "8", "9">>

IsDigit(c) == \E i \in 1..10 : Digits[i] = c

DigitVal(c) == (CHOOSE i \in 1..10 : Digits[i] = c) - 1

RECURSIVE DigitsToNat(_)
DigitsToNat(ds) ==
    IF ds = <<>> THEN 0
    ELSE 10 * DigitsToNat(SubSeq(ds, 1, Len(ds) - 1)) + DigitVal(ds[Len(ds)])

AllDigits(ds) == \A i \in 1..Len(ds) : IsDigit(ds[i])

\* the digits of a fraction, padded on the right to FracDigits digits
RECURSIVE PadRight(_)
PadRight(ds) == IF Len(ds) >= FracDigits THEN ds ELSE PadRight(Append(ds, "0"))

\* float(text): [sign] digits ["." [digits]]  or  [sign] "." digits ;
\* anything else is a ValueError
ParseFloat(text) ==
    LET signed == text # <<>> /\ text[1] \in {"-", "+"}
        body   == IF signed THEN Tail(text) ELSE text
        dots   == {i \in 1..Len(body) : body[i] = "."}
        dot    == IF dots = {} THEN Len(body) + 1
                  ELSE CHOOSE i \in dots : \A j \in dots : i <= j
        ipart  == SubSeq(body, 1, dot - 1)
        fpart  == SubSeq(body, dot + 1, Len(body))
        ok     == /\ Cardinality(dots) <= 1
                  /\ AllDigits(ipart) /\ AllDigits(fpart)
                  /\ Len(ipart) + Len(fpart) >= 1
                  /\ Len(fpart) <= FracDigits
        mag    == DigitsToNat(ipart) * Scale + DigitsToNat(PadRight(fpart))
    IN  IF ~ok
        THEN Raise("ValueError", "could not convert string to float", Str(text))
        ELSE Float(IF signed /\ text[1] = "-" THEN 0 - mag ELSE mag)

RECURSIVE NatToDigits(_)
NatToDigits(n) ==
    IF n < 10 THEN <<Digits[n + 1]>>
    ELSE Append(NatToDigits(n \div 10), Digits[(n % 10) + 1])

\* exactly w digits of n, zeros on the left
RECURSIVE FixedDigits(_, _)
FixedDigits(n, w) ==
    IF w = 0 THEN <<>>
    ELSE Append(FixedDigits(n \div 10, w - 1), Digits[(n % 10) + 1])

\* repr drops the trailing zeros of the fraction but keeps one digit
RECURSIVE StripZeros(_)
StripZeros(ds) ==
    IF Len(ds) > 1 /\ ds[Len(ds)] = "0"
    THEN StripZeros(SubSeq(ds, 1, Len(ds) - 1))
    ELSE ds

\* '{value}'.format(value=v): "2" for the int 2, "2.0" and "-2.3" for floats
FormatNumber(v) ==
    LET mag  == IF v.k < 0 THEN 0 - v.k ELSE v.k
        sign == IF v.k < 0 THEN <<"-">> ELSE <<>>
    IN  IF v.cls = "int"
        THEN sign \o NatToDigits(mag \div Scale)
        ELSE sign \o NatToDigits(mag \div Scale) \o <<".">>
                  \o StripZeros(FixedDigits(mag % Scale, FracDigits))

(***************************************************************************)
(* Parameter, lines 64-163.                                                *)
(***************************************************************************)
\* Parameter.__init__ with a plain value (the else branch of line 89)
Parameter(name, value, unit) ==
    [cls |-> "Parameter", name |-> name, value |-> value, unit |-> unit,
     parmin |-> None, parmax |-> None, frozen |-> FALSE]

Triple(p) == <<p.name, p.value.k, p.unit>>

\* the first exception among the results rs, or None when there is none: a
\* list comprehension or a loop stops at the first element that raises
FirstError(rs) ==
    LET bad == {i \in 1..Len(rs) : IsError(rs[i])}
    IN  IF bad = {} THEN None
        ELSE rs[CHOOSE i \in bad : \A j \in bad : i <= j]

\* iter(x): the items of a list, the keys of a dict
Iter(x) ==
    IF x.cls = "list" THEN x.items
    ELSE LET keys == DOMAIN x.kv
             ord  == CHOOSE f \in [1..Cardinality(keys) -> keys] :
                         \A i, j \in 1..Cardinality(keys) : i # j => f[i] # f[j]
         IN  [i \in 1..Cardinality(keys) |-> Str(ord[i])]

\* Parameter.from_dict_xml with a mutation: '@unit' is required
Parameter_from_dict_xml_unit_required(data) ==
    IF data.cls # "dict"
    THEN Raise("AttributeError", "object has no attribute 'get'", data)
    ELSE IF ~HasKey(data, "@name")
    THEN Raise("KeyError", "@name", None)
    ELSE IF ~HasKey(data, "@value")
    THEN Raise("KeyError", "@value", None)
    ELSE IF ~HasKey(data, "@unit")
    THEN Raise("KeyError", "@unit", None)
    ELSE LET value == ParseFloat(data.kv["@value"])
         IN  IF IsError(value) THEN value
             ELSE Parameter(data.kv["@name"], value, data.kv["@unit"])

\* Parameter.from_dict_xml
Parameter_from_dict_xml(data) ==
    IF data.cls # "dict"
    THEN Raise("AttributeError", "object has no attribute 'get'", data)
    ELSE LET unit == IF HasKey(data, "@unit") THEN data.kv["@unit"] ELSE ""
         IN  IF ~HasKey(data, "@name")
             THEN Raise("KeyError", "@name", None)
             ELSE IF ~HasKey(data, "@value")
             THEN Raise("KeyError", "@value", None)
             ELSE LET value == ParseFloat(data.kv["@value"])
                  IN  IF IsError(value) THEN value
                      ELSE Parameter(data.kv["@name"], value, unit)

\* Parameter.from_dict_gammacat
Parameter_from_dict_gammacat(data) ==
    LET value == ParseFloat(data.val)
    IN  IF IsError(value) THEN value
        ELSE Parameter(data.name, value, data.unit)

\* Parameter.__str__: the six attributes, each rendered with !r
Parameter_str(p) ==
    [name |-> p.name, value |-> p.value, unit |-> p.unit,
     min |-> p.parmin, max |-> p.parmax, frozen |-> p.frozen]

(***************************************************************************)
(* XML text.  An element is its tag, its attributes (each a text) and its  *)
(* child elements, in document order.                                      *)
(***************************************************************************)
Element(tag, attrs, children) ==
    [cls |-> "element", tag |-> tag, attrs |-> attrs, children |-> children]

\* Parameter.to_xml
Parameter_to_xml(p) ==
    Element("parameter",
            [a \in {"name", "value", "unit"} |->
                CASE a = "name"  -> p.name
                  [] a = "value" -> FormatNumber(p.value)
                  [] a = "unit"  -> p.unit],
            <<>>)

(***************************************************************************)
(* astropy units, as far as Quantity.to is used (line 248).                *)
(***************************************************************************)
Units == {"", "deg", "TeV", "GeV", "cm-2 s-1", "TeV-1", "cm-2 s-1 TeV-1"}

PhysicalType(unit) ==
    IF unit \in {"TeV", "GeV"} THEN "energy" ELSE unit

\* the unit in GeV, for the energies; 1 for every other unit
UnitFactor(unit) == IF unit = "TeV" THEN 1000 ELSE 1

\* Quantity.to(unit).value
Quantity_to_value(q, unit) ==
    IF PhysicalType(q.unit) # PhysicalType(unit)
    THEN Raise("UnitConversionError", "not convertible",
               List(<<Str(q.unit), Str(unit)>>))
    ELSE Float((q.value.k * UnitFactor(q.unit)) \div UnitFactor(unit))

(***************************************************************************)
(* ParameterList, lines 166-249.                                           *)
(***************************************************************************)
\* ParameterList.__init__
ParameterList(parameters, covariance) ==
    [cls |-> "ParameterList", parameters |-> parameters,
     covariance |-> covariance]

NdArray(rows) == [cls |-> "ndarray", a |-> rows]

\* ParameterList.__str__
ParameterList_str(pl) ==
    Str([head |-> pl.cls,
         pars |-> [i \in 1..Len(pl.parameters) |-> Parameter_str(pl.parameters[i])],
         covariance |-> pl.covariance])

\* ParameterList.__getitem__ with a mutation: the last match, not the first
ParameterList_getitem_last(pl, name) ==
    LET hits == {i \in 1..Len(pl.parameters) : pl.parameters[i].name = name}
    IN  IF hits # {}
        THEN pl.parameters[CHOOSE i \in hits : \A j \in hits : i >= j]
        ELSE Raise("IndexError", "Parameter {} not found for : {}",
                   List(<<Str(name), ParameterList_str(pl)>>))

\* ParameterList.__getitem__ with a mutation: a name that several parameters
\* carry is refused
ParameterList_getitem_unique(pl, name) ==
    LET hits == {i \in 1..Len(pl.parameters) : pl.parameters[i].name = name}
    IN  IF Cardinality(hits) = 1
        THEN pl.parameters[CHOOSE i \in hits : TRUE]
        ELSE Raise("IndexError", "Parameter {} not found for : {}",
                   List(<<Str(name), ParameterList_str(pl)>>))

\* ParameterList.__getitem__
ParameterList_getitem(pl, name) ==
    LET hits == {i \in 1..Len(pl.parameters) : pl.parameters[i].name = name}
    IN  IF hits # {}
        THEN pl.parameters[CHOOSE i \in hits : \A j \in hits : i <= j]
        ELSE Raise("IndexError", "Parameter {} not found for : {}",
                   List(<<Str(name), ParameterList_str(pl)>>))

\* ParameterList.from_list_of_dict_gammacat
ParameterList_from_list_of_dict_gammacat(data) ==
    Bind([i \in 1..Len(data) |-> Parameter_from_dict_gammacat(data[i])],
         LAMBDA ps : IF FirstError(ps) # None THEN FirstError(ps)
                     ELSE ParameterList(ps, None))

\* ParameterList.from_list_of_dict_xml
ParameterList_from_list_of_dict_xml(data) ==
    Bind(Iter(data), LAMBDA items :
    Bind([i \in 1..Len(items) |-> Parameter_from_dict_xml(items[i])],
         LAMBDA ps : IF FirstError(ps) # None THEN FirstError(ps)
                     ELSE ParameterList(ps, None)))

\* ParameterList.to_xml
ParameterList_to_xml(pl) ==
    [i \in 1..Len(pl.parameters) |-> Parameter_to_xml(pl.parameters[i])]

\* a two-dimensional array whose rows are as long as it has rows
IsSquare(c) == \A i \in 1..Len(c.a) : Len(c.a[i]) = Len(c.a)

Min(a, b) == IF a <= b THEN a ELSE b

\* one correlated variable: its nominal value and its variance
UFloat(nominal, variance) ==
    [cls |-> "ufloat", nominal |-> nominal, variance |-> variance]

\* uncertainties.correlated_values(values, covariance), the set of its
\* outcomes.  It diagonalises the matrix with numpy.linalg.eigh, which raises
\* LinAlgError for an argument that is not a square two-dimensional array
\* (None becomes a 0-dimensional array) and decomposes every square matrix,
\* singular ones included; the results are zipped with the values, so the
\* shorter of the two decides their number.  Whether an empty matrix is
\* refused depends on the numpy release: both outcomes are kept.
correlated_values(values, covariance) ==
    IF covariance = None
    THEN {Raise("LinAlgError", "0-dimensional array given", List(<<>>))}
    ELSE IF ~IsSquare(covariance)
    THEN {Raise("LinAlgError", "Last 2 dimensions of the array must be square",
                List(<<>>))}
    ELSE LET n == Min(Len(values), Len(covariance.a))
             uarray == List([i \in 1..n |->
                                UFloat(values[i], covariance.a[i][i])])
         IN  IF Len(covariance.a) = 0
             THEN {Raise("LinAlgError", "Arrays cannot be empty", List(<<>>)),
                   uarray}
             ELSE {uarray}

\* the dict lines 229-231 fill: a later parameter of the same name
\* overwrites an earlier one
UparsOf(parameters, uarray) ==
    LET n == Min(Len(parameters), Len(uarray))
        names == {parameters[i].name : i \in 1..n}
    IN  Dict([name \in names |->
                 uarray[CHOOSE i \in 1..n :
                           /\ parameters[i].name = name
                           /\ \A j \in 1..n :
                                 parameters[j].name = name => j <= i]])

\* ParameterList._ufloats with a mutation: a matrix with a zero variance is
\* refused as well
ParameterList_ufloats_singular_refused(pl) ==
    LET values == [i \in 1..Len(pl.parameters) |-> pl.parameters[i].value]
    IN  {IF r.cls = "LinAlgError"
            \/ \E i \in 1..Len(pl.covariance.a) : pl.covariance.a[i][i] = 0
         THEN Raise("ValueError", "Covariance matrix not set.", List(<<>>))
         ELSE UparsOf(pl.parameters, r.items)
         : r \in correlated_values(values, pl.covariance)}

\* ParameterList._ufloats, the set of its outcomes
ParameterList_ufloats(pl) ==
    LET values == [i \in 1..Len(pl.parameters) |-> pl.parameters[i].value]
    IN  {IF r.cls = "LinAlgError"
         THEN Raise("ValueError", "Covariance matrix not set.", List(<<>>))
         ELSE UparsOf(pl.parameters, r.items)
         : r \in correlated_values(values, pl.covariance)}

\* the values list of set_parameter_errors (lines 245-248); an entry is
\* the exception of its conversion when that raises
ErrorValues(pl, errors) ==
    [i \in 1..Len(pl.parameters) |->
        LET par == pl.parameters[i]
            quantity == IF par.name \in DOMAIN errors
                        THEN errors[par.name]
                        ELSE Quantity(Float(0), par.unit)
        IN  Quantity_to_value(quantity, par.unit)]

\* np.diag(values) ** 2
DiagSquared(values) ==
    NdArray([i \in 1..Len(values) |->
                [j \in 1..Len(values) |->
                    IF i = j THEN (values[i].k * values[i].k) \div Scale ELSE 0]])

\* ParameterList.set_parameter_errors with a mutation: the errors, not
\* their squares
ParameterList_set_parameter_errors_unsquared(pl, errors) ==
    LET values == ErrorValues(pl, errors)
    IN  IF FirstError(values) # None THEN pl
        ELSE [pl EXCEPT !.covariance =
                 NdArray([i \in 1..Len(values) |->
                     [j \in 1..Len(values) |->
                         IF i = j THEN values[i].k ELSE 0]])]

\* ParameterList.set_parameter_errors with a mutation: a row and a column
\* only for the parameters the mapping names
ParameterList_set_parameter_errors_named_only(pl, errors) ==
    LET values == ErrorValues(pl, errors)
        named  == SelectSeq([i \in 1..Len(values) |->
                                [v |-> values[i], name |-> pl.parameters[i].name]],
                            LAMBDA x : x.name \in DOMAIN errors)
    IN  IF FirstError(values) # None THEN pl
        ELSE [pl EXCEPT !.covariance =
                 DiagSquared([i \in 1..Len(named) |-> named[i].v])]

\* ParameterList.set_parameter_errors with a mutation: only the diagonal of
\* a stored matrix of the same shape is overwritten
ParameterList_set_parameter_errors_diagonal_only(pl, errors) ==
    LET values == ErrorValues(pl, errors)
        new    == DiagSquared(values)
        c      == pl.covariance
    IN  IF FirstError(values) # None THEN pl
        ELSE IF c # None /\ IsSquare(c) /\ Len(c.a) = Len(values)
        THEN [pl EXCEPT !.covariance =
                 NdArray([i \in 1..Len(values) |->
                     [j \in 1..Len(values) |->
                         IF i = j THEN new.a[i][j] ELSE c.a[i][j]]])]
        ELSE [pl EXCEPT !.covariance = new]

\* ParameterList.set_parameter_errors: the object after the call
\* (unchanged when a conversion raises before line 249 assigns)
ParameterList_set_parameter_errors(pl, errors) ==
    LET values == ErrorValues(pl, errors)
    IN  IF FirstError(values) # None THEN pl
        ELSE [pl EXCEPT !.covariance = DiagSquared(values)]

(***************************************************************************)
(* BaseModel and the variants, lines 359-578.                              *)
(***************************************************************************)
\* BaseModel.__init__ for the class named cls, given a Python list
Model(cls, parameters) ==
    [cls |-> cls, parameters |-> ParameterList(parameters, None)]

\* BaseModel.__init__ given a ParameterList
ModelOfPlist(cls, plist) == [cls |-> cls, parameters |-> plist]

SpectralClasses ==
    {"SpectralModelPowerLaw", "SpectralModelPowerLaw2", "SpectralModelExpCutoff"}

SpatialClasses == {"SpatialModelPoint", "SpatialModelGauss", "SpatialModelShell"}

\* the xml_type attribute of each class
xml_type(cls) ==
    CASE cls = "SpectralModelPowerLaw"  -> "PowerLaw"
      [] cls = "SpectralModelPowerLaw2" -> "PowerLaw2"
      [] cls = "SpectralModelExpCutoff" -> "ExpCutoff"
      [] cls = "SpatialModelPoint"      -> "Point"
      [] cls = "SpatialModelGauss"      -> "Gauss"
      [] cls = "SpatialModelShell"      -> "Shell"

\* the xml_types attribute of each class with a mutation: 'Shell' is an
\* alias of the Gauss variant as well
xml_types_overlapping(cls) ==
    CASE cls = "SpatialModelGauss" -> {xml_type(cls), "Gaussian", "Shell"}
      [] cls = "SpatialModelShell" -> {xml_type(cls), "RadialShell"}
      [] OTHER                     -> {xml_type(cls)}

\* the xml_types attribute of each class
xml_types(cls) ==
    CASE cls = "SpatialModelGauss" -> {xml_type(cls), "Gaussian"}
      [] cls = "SpatialModelShell" -> {xml_type(cls), "RadialShell"}
      [] OTHER                     -> {xml_type(cls)}

\* the xml_source_type attribute of the spatial classes
xml_source_type(cls) ==
    IF cls = "SpatialModelPoint" THEN "PointSource" ELSE "ExtendedSource"

\* SpectralModel.from_xml_dict with a mutation: the index of the parameter
\* list is negated, as the catalog import does
SpectralModel_from_xml_dict_negated(data) ==
    IF data.cls # "dict"
    THEN Raise("TypeError", "string indices must be integers", data)
    ELSE IF ~HasKey(data, "@type") THEN Raise("KeyError", "@type", None)
    ELSE IF ~HasKey(data, "parameter") THEN Raise("KeyError", "parameter", None)
    ELSE LET model_type == data.kv["@type"]
             parsed     == ParameterList_from_list_of_dict_xml(data.kv["parameter"])
             parameters ==
                 [parsed EXCEPT !.parameters =
                     [i \in 1..Len(parsed.parameters) |->
                         IF parsed.parameters[i].name = "Index"
                         THEN [parsed.parameters[i] EXCEPT
                                  !.value = Float(0 - parsed.parameters[i].value.k)]
                         ELSE parsed.parameters[i]]]
         IN  IF IsError(parsed) THEN parsed
             ELSE IF model_type = xml_type("SpectralModelPowerLaw")
             THEN ModelOfPlist("SpectralModelPowerLaw", parameters)
             ELSE IF model_type = xml_type("SpectralModelPowerLaw2")
             THEN ModelOfPlist("SpectralModelPowerLaw2", parameters)
             ELSE IF model_type = xml_type("SpectralModelExpCutoff")
             THEN ModelOfPlist("SpectralModelExpCutoff", parameters)
             ELSE Raise("UnknownModelError", "Unknown spatial model: {}",
                        Str(model_type))

\* SpectralModel.from_xml_dict
SpectralModel_from_xml_dict(data) ==
    IF data.cls # "dict"
    THEN Raise("TypeError", "string indices must be integers", data)
    ELSE IF ~HasKey(data, "@type") THEN Raise("KeyError", "@type", None)
    ELSE IF ~HasKey(data, "parameter") THEN Raise("KeyError", "parameter", None)
    ELSE LET model_type == data.kv["@type"]
         IN  Bind(ParameterList_from_list_of_dict_xml(data.kv["parameter"]),
             LAMBDA parameters :
             IF IsError(parameters) THEN parameters
             ELSE IF model_type = xml_type("SpectralModelPowerLaw")
             THEN ModelOfPlist("SpectralModelPowerLaw", parameters)
             ELSE IF model_type = xml_type("SpectralModelPowerLaw2")
             THEN ModelOfPlist("SpectralModelPowerLaw2", parameters)
             ELSE IF model_type = xml_type("SpectralModelExpCutoff")
             THEN ModelOfPlist("SpectralModelExpCutoff", parameters)
             ELSE Raise("UnknownModelError", "Unknown spatial model: {}",
                        Str(model_type)))

\* SpectralModelPowerLaw.from_plist
SpectralModelPowerLaw_from_plist(plist) ==
    LET amplitude == ParameterList_getitem(plist, "amplitude")
        index     == ParameterList_getitem(plist, "index")
        reference == ParameterList_getitem(plist, "reference")
        found     == <<amplitude, index, reference>>
    IN  IF FirstError(found) # None THEN FirstError(found)
        ELSE Model("SpectralModelPowerLaw",
                <<Parameter("Prefactor", amplitude.value, amplitude.unit),
                  Parameter("Index", Float(0 - index.value.k), index.unit),
                  Parameter("Scale", reference.value, reference.unit)>>)

\* SpectralModelPowerLaw2.from_plist
SpectralModelPowerLaw2_from_plist(plist) ==
    LET amplitude == ParameterList_getitem(plist, "amplitude")
        index     == ParameterList_getitem(plist, "index")
        emin      == ParameterList_getitem(plist, "emin")
        emax      == ParameterList_getitem(plist, "emax")
        found     == <<amplitude, index, emin, emax>>
    IN  IF FirstError(found) # None THEN FirstError(found)
        ELSE Model("SpectralModelPowerLaw2",
                <<Parameter("Integral", amplitude.value, amplitude.unit),
                  Parameter("Index", Float(0 - index.value.k), index.unit),
                  Parameter("LowerLimit", emin.value, emin.unit),
                  Parameter("UpperLimit", emax.value, emax.unit)>>)

\* SpectralModelExpCutoff.from_plist: the index is copied (line 479), the
\* cutoff is 1 / lambda_ (line 481), a ZeroDivisionError for lambda_ = 0
SpectralModelExpCutoff_from_plist(plist) ==
    LET amplitude == ParameterList_getitem(plist, "amplitude")
        index     == ParameterList_getitem(plist, "index")
        lambda_   == ParameterList_getitem(plist, "lambda_")
        reference == ParameterList_getitem(plist, "reference")
        early     == <<amplitude, index, lambda_>>
    IN  IF FirstError(early) # None THEN FirstError(early)
        ELSE IF lambda_.value.k = 0
        THEN Raise("ZeroDivisionError", "float division by zero", None)
        ELSE IF IsError(reference) THEN reference
        ELSE Model("SpectralModelExpCutoff",
                <<Parameter("Prefactor", amplitude.value, amplitude.unit),
                  Parameter("Index", index.value, index.unit),
                  Parameter("Cutoff", Float((Scale * Scale) \div lambda_.value.k),
                            lambda_.unit),
                  Parameter("Scale", reference.value, reference.unit)>>)

\* SpectralModel.from_gammacat.  source.spectral_model is None when the
\* catalog has no spectral data: to_dict() then raises ValueError
SpectralModel_from_gammacat(source) ==
    IF source.spectral_model = None
    THEN Raise("NoDataAvailableError", "{}", source)
    ELSE LET data  == source.spectral_model
             plist == ParameterList_from_list_of_dict_gammacat(data.parameters)
         IN  IF IsError(plist) THEN plist
             ELSE IF data.name = "PowerLaw"
             THEN SpectralModelPowerLaw_from_plist(plist)
             ELSE IF data.name = "PowerLaw2"
             THEN SpectralModelPowerLaw2_from_plist(plist)
             ELSE IF data.name = "ExponentialCutoffPowerLaw"
             THEN SpectralModelExpCutoff_from_plist(plist)
             ELSE Raise("UnknownModelError", "Unknown spectral model: {}", data)

\* SpatialModel.from_xml_dict with a mutation: an unmatched tag falls
\* through to the last variant
SpatialModel_from_xml_dict_fallthrough(data) ==
    IF data.cls # "dict"
    THEN Raise("TypeError", "string indices must be integers", data)
    ELSE IF ~HasKey(data, "@type") THEN Raise("KeyError", "@type", None)
    ELSE LET model_type == data.kv["@type"]
         IN  IF model_type \in xml_types("SpatialModelPoint")
             THEN Model("SpatialModelPoint", <<>>)
             ELSE IF model_type \in xml_types("SpatialModelGauss")
             THEN Model("SpatialModelGauss", <<>>)
             ELSE Model("SpatialModelShell", <<>>)

\* SpatialModel.from_xml_dict: every branch passes parameters=[]
SpatialModel_from_xml_dict(data) ==
    IF data.cls # "dict"
    THEN Raise("TypeError", "string indices must be integers", data)
    ELSE IF ~HasKey(data, "@type") THEN Raise("KeyError", "@type", None)
    ELSE LET model_type == data.kv["@type"]
         IN  IF model_type \in xml_types("SpatialModelPoint")
             THEN Model("SpatialModelPoint", <<>>)
             ELSE IF model_type \in xml_types("SpatialModelGauss")
             THEN Model("SpatialModelGauss", <<>>)
             ELSE IF model_type \in xml_types("SpatialModelShell")
             THEN Model("SpatialModelShell", <<>>)
             ELSE Raise("UnknownModelError", "Unknown spatial model: {}",
                        Str(model_type))

\* SpatialModelPoint.from_gammacat
SpatialModelPoint_from_gammacat(source) ==
    LET d == source.data
    IN  Model("SpatialModelPoint",
              <<Parameter("GLON", d.glon.value, d.glon.unit),
                Parameter("GLAT", d.glat.value, d.glat.unit)>>)

\* SpatialModelGauss.from_gammacat
SpatialModelGauss_from_gammacat(source) ==
    LET d == source.data
    IN  Model("SpatialModelGauss",
              <<Parameter("GLON", d.glon.value, d.glon.unit),
                Parameter("GLAT", d.glat.value, d.glat.unit),
                Parameter("Sigma", d.morph_sigma.value, d.morph_sigma.unit)>>)

\* SpatialModelShell.from_gammacat with a mutation: Width before Radius
SpatialModelShell_from_gammacat_swapped(source) ==
    LET d == source.data
    IN  Model("SpatialModelShell",
              <<Parameter("GLON", d.glon.value, d.glon.unit),
                Parameter("GLAT", d.glat.value, d.glat.unit),
                Parameter("Width", PyInt(0), "deg"),
                Parameter("Radius", d.morph_sigma.value, d.morph_sigma.unit)>>)

\* SpatialModelShell.from_gammacat
SpatialModelShell_from_gammacat(source) ==
    LET d == source.data
    IN  Model("SpatialModelShell",
              <<Parameter("GLON", d.glon.value, d.glon.unit),
                Parameter("GLAT", d.glat.value, d.glat.unit),
                Parameter("Radius", d.morph_sigma.value, d.morph_sigma.unit),
                Parameter("Width", PyInt(0), "deg")>>)

\* SpatialModel.from_gammacat
SpatialModel_from_gammacat(source) ==
    LET data == source.data
    IN  IF data.morph_type = "point" THEN SpatialModelPoint_from_gammacat(source)
        ELSE IF data.morph_type = "gauss" THEN SpatialModelGauss_from_gammacat(source)
        ELSE IF data.morph_type = "shell" THEN SpatialModelShell_from_gammacat(source)
        ELSE Raise("UnknownModelError", "Unknown spatial model: {}", source)

\* SpectralModel.to_xml
SpectralModel_to_xml(m) ==
    Element("spectrum", [a \in {"type"} |-> xml_type(m.cls)],
            ParameterList_to_xml(m.parameters))

\* SpatialModel.to_xml
SpatialModel_to_xml(m) ==
    Element("spatialModel", [a \in {"type"} |-> xml_type(m.cls)],
            ParameterList_to_xml(m.parameters))

(***************************************************************************)
(* SourceModel, lines 297-356.                                             *)
(***************************************************************************)
\* SourceModel.__init__
SourceModel(source_name, source_type, spatial_model, spectral_model) ==
    [cls |-> "SourceModel", source_name |-> source_name,
     source_type |-> source_type, spatial_model |-> spatial_model,
     spectral_model |-> spectral_model]

\* SourceModel.from_gammacat with a mutation: the type tag is the
\* catalog's morph_type
SourceModel_from_gammacat_morph_type(source) ==
    LET source_name    == source.data.common_name
        spectral_model == SpectralModel_from_gammacat(source)
        spatial_model  == SpatialModel_from_gammacat(source)
    IN  IF IsError(spectral_model) THEN spectral_model
        ELSE IF IsError(spatial_model) THEN spatial_model
        ELSE SourceModel(source_name, source.data.morph_type,
                         spatial_model, spectral_model)

\* SourceModel.from_gammacat
SourceModel_from_gammacat(source) ==
    LET source_name    == source.data.common_name
        spectral_model == SpectralModel_from_gammacat(source)
        spatial_model  == SpatialModel_from_gammacat(source)
    IN  IF IsError(spectral_model) THEN spectral_model
        ELSE IF IsError(spatial_model) THEN spatial_model
        ELSE SourceModel(source_name, xml_source_type(spatial_model.cls),
                         spatial_model, spectral_model)

\* lines 331-336 with a mutation: 'spatialModel' is tried first
SpatialOfEntry_spatial_first(data) ==
    IF HasKey(data, "spatialModel")
    THEN SpatialModel_from_xml_dict(data.kv["spatialModel"])
    ELSE IF HasKey(data, "radialModel")
    THEN SpatialModel_from_xml_dict(data.kv["radialModel"])
    ELSE Raise("UnknownModelError", "No spatial / radial model found for: {}",
               data)

\* the spatial model of SourceModel.from_xml_dict, lines 331-336
SpatialOfEntry(data) ==
    IF HasKey(data, "radialModel")
    THEN SpatialModel_from_xml_dict(data.kv["radialModel"])
    ELSE IF HasKey(data, "spatialModel")
    THEN SpatialModel_from_xml_dict(data.kv["spatialModel"])
    ELSE Raise("UnknownModelError", "No spatial / radial model found for: {}",
               data)

\* SourceModel.from_xml_dict with a mutation: the type tag is the spatial
\* model's xml_source_type
SourceModel_from_xml_dict_derived_type(data) ==
    IF data.cls # "dict"
    THEN Raise("TypeError", "string indices must be integers", data)
    ELSE IF ~HasKey(data, "@name") THEN Raise("KeyError", "@name", None)
    ELSE IF ~HasKey(data, "@type") THEN Raise("KeyError", "@type", None)
    ELSE IF ~HasKey(data, "spectrum") THEN Raise("KeyError", "spectrum", None)
    ELSE Bind(SpectralModel_from_xml_dict(data.kv["spectrum"]),
         LAMBDA spectral_model :
         IF IsError(spectral_model) THEN spectral_model
         ELSE Bind(SpatialOfEntry(data),
              LAMBDA spatial_model :
              IF IsError(spatial_model) THEN spatial_model
              ELSE SourceModel(data.kv["@name"],
                               xml_source_type(spatial_model.cls),
                               spatial_model, spectral_model)))

\* SourceModel.from_xml_dict
SourceModel_from_xml_dict(data) ==
    IF data.cls # "dict"
    THEN Raise("TypeError", "string indices must be integers", data)
    ELSE IF ~HasKey(data, "@name") THEN Raise("KeyError", "@name", None)
    ELSE IF ~HasKey(data, "@type") THEN Raise("KeyError", "@type", None)
    ELSE IF ~HasKey(data, "spectrum") THEN Raise("KeyError", "spectrum", None)
    ELSE Bind(SpectralModel_from_xml_dict(data.kv["spectrum"]),
         LAMBDA spectral_model :
         IF IsError(spectral_model) THEN spectral_model
         ELSE Bind(SpatialOfEntry(data),
              LAMBDA spatial_model :
              IF IsError(spatial_model) THEN spatial_model
              ELSE SourceModel(data.kv["@name"], data.kv["@type"],
                               spatial_model, spectral_model)))

\* SourceModel.to_xml with a mutation: the spatial fragment first
SourceModel_to_xml_spatial_first(m) ==
    Element("source",
            [a \in {"name", "type"} |->
                IF a = "name" THEN m.source_name ELSE m.source_type],
            <<SpatialModel_to_xml(m.spatial_model),
              SpectralModel_to_xml(m.spectral_model)>>)

\* SourceModel.to_xml
SourceModel_to_xml(m) ==
    Element("source",
            [a \in {"name", "type"} |->
                IF a = "name" THEN m.source_name ELSE m.source_type],
            <<SpectralModel_to_xml(m.spectral_model),
              SpatialModel_to_xml(m.spatial_model)>>)

(***************************************************************************)
(* xmltodict.parse, as line 264 uses it: an element becomes a dict of its  *)
(* attributes under "@" keys and of its children under their tags, where   *)
(* one child of a tag is the child's dict and several are a list of them.  *)
(***************************************************************************)
AttrKey(a) ==
    CASE a = "name"  -> "@name"
      [] a = "value" -> "@value"
      [] a = "unit"  -> "@unit"
      [] a = "type"  -> "@type"
      [] a = "title" -> "@title"

RECURSIVE xmltodict_element(_)
xmltodict_element(e) ==
    LET tags     == {e.children[i].tag : i \in 1..Len(e.children)}
        attrs    == DOMAIN e.attrs
        keys     == {AttrKey(a) : a \in attrs} \cup tags
        group(t) == SelectSeq(e.children, LAMBDA c : c.tag = t)
    IN  IF keys = {} THEN None
        ELSE Dict([k \in keys |->
               IF k \in tags
               THEN Bind(group(k), LAMBDA g :
                    IF Len(g) = 1
                    THEN xmltodict_element(g[1])
                    ELSE List([i \in 1..Len(g) |-> xmltodict_element(g[i])]))
               ELSE e.attrs[CHOOSE a \in attrs : AttrKey(a) = k]])

xmltodict_parse(xml) ==
    Dict([k \in {xml.root.tag} |-> xmltodict_element(xml.root)])

(***************************************************************************)
(* SourceLibrary, lines 252-294.                                           *)
(***************************************************************************)
\* SourceLibrary.__init__
SourceLibrary(source_list) ==
    [cls |-> "SourceLibrary", source_list |-> source_list]

\* SourceLibrary.from_list_of_dict with a mutation: an entry that fails is
\* left out
SourceLibrary_from_list_of_dict_skip_failures(data) ==
    Bind(Iter(data), LAMBDA items :
    Bind([i \in 1..Len(items) |-> SourceModel_from_xml_dict(items[i])],
         LAMBDA models :
            SourceLibrary(SelectSeq(models, LAMBDA m : ~IsError(m)))))

\* SourceLibrary.from_list_of_dict
SourceLibrary_from_list_of_dict(data) ==
    Bind(Iter(data), LAMBDA items :
    Bind([i \in 1..Len(items) |-> SourceModel_from_xml_dict(items[i])],
         LAMBDA models : IF FirstError(models) # None THEN FirstError(models)
                         ELSE SourceLibrary(models)))

\* SourceLibrary.from_xml
SourceLibrary_from_xml(xml) ==
    Bind(xmltodict_parse(xml), LAMBDA full_dict :
         LET library == full_dict.kv["source_library"]
         IN  IF ~HasKey(library, "source") THEN Raise("KeyError", "source", None)
             ELSE SourceLibrary_from_list_of_dict(library.kv["source"]))

\* SourceLibrary.to_xml
SourceLibrary_to_xml(lib, title, header) ==
    [cls |-> "document",
     declaration |-> "<?xml version=\"1.0\" ?>",
     header |-> header,
     root |-> Element("source_library", [a \in {"title"} |-> title],
                 [i \in 1..Len(lib.source_list) |->
                     SourceModel_to_xml(lib.source_list[i])])]

(***************************************************************************)
(* The inputs the calls are made with.                                     *)
(***************************************************************************)
\* dicts of one <parameter> element, as the XML reader hands them over
XmlParameterDicts ==
    {Dict([k \in {"@name", "@value", "@unit"} |->
             CASE k = "@name"  -> "Prefactor"
               [] k = "@value" -> <<"1", ".", "5">>
               [] k = "@unit"  -> "cm-2 s-1 TeV-1"]),
     Dict([k \in {"@name", "@value", "@unit"} |->
             CASE k = "@name"  -> "Index"
               [] k = "@value" -> <<"-", "2", ".", "3">>
               [] k = "@unit"  -> "TeV-1"]),
     Dict([k \in {"@name", "@value"} |->
             CASE k = "@name"  -> "Scale"
               [] k = "@value" -> <<"1">>]),
     Dict([k \in {"@value", "@unit"} |->
             CASE k = "@value" -> <<"2", ".", "0">>
               [] k = "@unit"  -> "deg"]),
     Dict([k \in {"@name", "@unit"} |->
             CASE k = "@name"  -> "Index"
               [] k = "@unit"  -> ""]),
     Dict([k \in {"@name", "@value", "@unit"} |->
             CASE k = "@name"  -> "Cutoff"
               [] k = "@value" -> <<"a", "b", "c">>
               [] k = "@unit"  -> "TeV"]),
     Dict([k \in {"@unit"} |-> "deg"])}

\* Parameters a ParameterList is constructed from
ParameterPool ==
    {Parameter("amplitude", Float(10 * Scale), "cm-2 s-1"),
     Parameter("index", Float(2 * Scale), ""),
     Parameter("index", Float(0 - Scale), ""),
     Parameter("Sigma", Float((3 * Scale) \div 10), "deg"),
     Parameter("reference", Float(Scale), "TeV")}

\* covariance arguments of ParameterList.__init__
CovariancePool ==
    {None, NdArray(<<<<Scale>>>>), NdArray(<<<<Scale, 0>>>>),
     NdArray(<<<<Scale, Scale \div 2>>, <<Scale \div 2, Scale>>>>)}

\* names looked up
LookupNames == {"amplitude", "index", "Sigma", "Nope"}

\* error mappings given to set_parameter_errors
ErrorMappings ==
    {[n \in {"Nope"} |-> Quantity(Float(Scale), "deg")],
     [n \in {"amplitude"} |-> Quantity(Float(Scale), "cm-2 s-1")],
     [n \in {"index", "reference"} |->
         IF n = "index" THEN Quantity(Float(Scale \div 2), "")
         ELSE Quantity(Float(500 * Scale), "GeV")],
     [n \in {"Sigma", "amplitude"} |->
         IF n = "Sigma" THEN Quantity(Float(Scale \div 10), "deg")
         ELSE Quantity(Float(2 * Scale), "cm-2 s-1")],
     [n \in {"reference", "index"} |->
         IF n = "reference" THEN Quantity(Float(Scale), "deg")
         ELSE Quantity(Float(Scale), "")]}

\* one parameter of source.spectral_model.to_dict()
CatalogParameter(name, val, unit) == [name |-> name, val |-> val, unit |-> unit]

IndexTexts == {<<"2", ".", "0">>, <<"-", "1", ".", "5">>}

LambdaTexts == {<<"0", ".", "5">>, <<"2">>, <<"0">>}

\* what source.spectral_model.to_dict() returns
CatalogSpectra ==
    LET amplitude == CatalogParameter("amplitude", <<"1", ".", "5">>, "cm-2 s-1 TeV-1")
        reference == CatalogParameter("reference", <<"1">>, "TeV")
        emin      == CatalogParameter("emin", <<"1">>, "TeV")
        emax      == CatalogParameter("emax", <<"1", "0">>, "TeV")
        index(t)  == CatalogParameter("index", t, "")
        lambda_(t) == CatalogParameter("lambda_", t, "TeV-1")
        sm(n, ps) == [cls |-> "dict", name |-> n, parameters |-> ps]
    IN  {sm(n, <<amplitude, index(t), reference>>) :
            n \in {"PowerLaw", "LogParabola"}, t \in IndexTexts}
        \cup
        {sm("PowerLaw2", <<amplitude, index(t), emin, emax>>) : t \in IndexTexts}
        \cup
        {sm("ExponentialCutoffPowerLaw",
            <<amplitude, index(t), lambda_(l), reference>>) :
            t \in IndexTexts, l \in LambdaTexts}
        \cup
        {sm(n, <<amplitude, reference>>) :
            n \in {"PowerLaw", "ExponentialCutoffPowerLaw"}}
        \cup
        {sm(n, <<amplitude, index(<<"n", "a", "n", "o">>), reference>>) :
            n \in {"PowerLaw", "LogParabola"}}

\* catalog records: source.data and source.spectral_model
CatalogSources ==
    {[cls |-> "SourceCatalogObject",
      data |-> [common_name |-> "Crab", morph_type |-> mt,
                glon |-> Quantity(Float(184 * Scale), "deg"),
                glat |-> Quantity(Float(0 - (5 * Scale)), "deg"),
                morph_sigma |-> Quantity(Float(sg), "deg")],
      spectral_model |-> sm] :
        mt \in {"point", "gauss", "shell", "none"},
        sg \in {(3 * Scale) \div 10, Scale},
        sm \in CatalogSpectra \cup {None}}

\* lists of <parameter> dicts of an element, up to MaxParams long
XmlParameterLists ==
    {List(ps) : ps \in SeqsOf(XmlParameterDicts, 0, MaxParams)}

\* <spectrum> elements: a list of parameters, one parameter (which the XML
\* reader hands over as the dict itself) or none (no "parameter" key)
XmlSpectra ==
    {Dict([k \in {"@type", "parameter"} |->
             IF k = "@type" THEN t ELSE ps]) :
        t \in {"PowerLaw", "PowerLaw2", "ExpCutoff", "Bogus"},
        ps \in XmlParameterLists \cup XmlParameterDicts}
    \cup {Dict([k \in {"@type"} |-> t]) : t \in {"PowerLaw", "Bogus"}}
    \cup {Dict([k \in {"parameter"} |-> ps]) : ps \in XmlParameterLists}

\* <spatialModel> / <radialModel> elements
XmlSpatials ==
    {Dict([k \in {"@type", "parameter"} |->
             IF k = "@type" THEN t ELSE ps]) :
        t \in {"Point", "Gauss", "Gaussian", "Shell", "RadialShell", "Bogus",
               "PowerLaw"},
        ps \in XmlParameterLists}
    \cup {Dict([k \in {"parameter"} |-> ps]) : ps \in XmlParameterLists}

\* a key an entry does not have
Absent == [cls |-> "absent"]

EntrySpectra ==
    LET good == List(<<Dict([k \in {"@name", "@value", "@unit"} |->
                          CASE k = "@name"  -> "Prefactor"
                            [] k = "@value" -> <<"1", ".", "5">>
                            [] k = "@unit"  -> "cm-2 s-1 TeV-1"]),
                       Dict([k \in {"@name", "@value"} |->
                          IF k = "@name" THEN "Index" ELSE <<"-", "2", ".", "3">>])>>)
        bad  == List(<<Dict([k \in {"@unit"} |-> "deg"])>>)
        el(t, ps) == Dict([k \in {"@type", "parameter"} |->
                              IF k = "@type" THEN t ELSE ps])
    IN  {el("PowerLaw", good), el("Bogus", good), el("ExpCutoff", bad)}

EntrySpatials ==
    LET ps == List(<<Dict([k \in {"@name", "@value", "@unit"} |->
                        CASE k = "@name"  -> "GLON"
                          [] k = "@value" -> <<"1", "8", "4", ".", "0">>
                          [] k = "@unit"  -> "deg"]),
                     Dict([k \in {"@name", "@value", "@unit"} |->
                        CASE k = "@name"  -> "GLAT"
                          [] k = "@value" -> <<"-", "5", ".", "0">>
                          [] k = "@unit"  -> "deg"])>>)
        el(t) == Dict([k \in {"@type", "parameter"} |->
                          IF k = "@type" THEN t ELSE ps])
    IN  {el("Point"), el("Gaussian"), el("Shell"), el("Bogus")}

\* <source> entries given to SourceModel.from_xml_dict
XmlSources ==
    {Dict([k \in {"@type"}
                 \cup (IF named THEN {"@name"} ELSE {})
                 \cup (IF spectrum # Absent THEN {"spectrum"} ELSE {})
                 \cup (IF radial # Absent THEN {"radialModel"} ELSE {})
                 \cup (IF spatial # Absent THEN {"spatialModel"} ELSE {}) |->
              CASE k = "@name"        -> "Crab"
                [] k = "@type"        -> type
                [] k = "spectrum"     -> spectrum
                [] k = "radialModel"  -> radial
                [] k = "spatialModel" -> spatial]) :
        named \in BOOLEAN,
        type \in {"PointSource", "ExtendedSource"},
        spectrum \in EntrySpectra \cup {Absent},
        radial \in EntrySpatials \cup {Absent},
        spatial \in EntrySpatials \cup {Absent}}

\* <source> entries of the lists given to SourceLibrary.from_list_of_dict:
\* named entries with a spectrum, without or with a radial-model container
\* and without or with a spatial-model container of a known or unknown type
LibraryEntries ==
    {d \in XmlSources :
        /\ HasKey(d, "@name")
        /\ d.kv["@type"] = "PointSource"
        /\ HasKey(d, "spectrum")
        /\ HasKey(d, "radialModel") => d.kv["radialModel"].kv["@type"] = "Gaussian"
        /\ HasKey(d, "spatialModel") =>
               d.kv["spatialModel"].kv["@type"] \in {"Point", "Bogus"}}

\* SourceModel instances a SourceLibrary is built from
SourceModelPool ==
    LET glon == Parameter("GLON", Float(184 * Scale), "deg")
        glat == Parameter("GLAT", Float(0 - (5 * Scale)), "deg")
        amplitude == Parameter("Prefactor", Float((3 * Scale) \div 2), "cm-2 s-1 TeV-1")
    IN  {SourceModel("Crab", "PointSource",
            Model("SpatialModelPoint", <<glon, glat>>),
            Model("SpectralModelPowerLaw",
                  <<amplitude, Parameter("Index", Float(0 - (2 * Scale)), ""),
                    Parameter("Scale", Float(Scale), "TeV")>>)),
         SourceModel("Vela Junior", "ExtendedSource",
            Model("SpatialModelShell",
                  <<glon, glat, Parameter("Radius", Float(Scale), "deg"),
                    Parameter("Width", PyInt(0), "deg")>>),
            Model("SpectralModelExpCutoff",
                  <<amplitude, Parameter("Index", Float(0 - ((3 * Scale) \div 2)), ""),
                    Parameter("Cutoff", Float(2 * Scale), "TeV"),
                    Parameter("Scale", Float(Scale), "TeV")>>)),
         SourceModel("HESS J1825", "ExtendedSource",
            Model("SpatialModelGauss",
                  <<glon, glat, Parameter("Sigma", Float((3 * Scale) \div 10), "deg")>>),
            Model("SpectralModelPowerLaw2",
                  <<Parameter("Integral", Float(Scale), "cm-2 s-1"),
                    Parameter("Index", Float(0 - (2 * Scale)), ""),
                    Parameter("LowerLimit", Float(Scale), "TeV"),
                    Parameter("UpperLimit", Float(10 * Scale), "TeV")>>))}

\* title and header arguments of SourceLibrary.to_xml, the defaults first
Titles == {"sources", "gammacat"}

Headers == {"\n", "<!-- generated -->"}

(***************************************************************************)
(* The calls.  self is the object instance methods are called on, op the   *)
(* last call, arg its argument and ret what it returned or raised; prev is *)
(* self as it was when the last call was made.                             *)
(***************************************************************************)
Init ==
    /\ self = None
    /\ op = "start"
    /\ arg = None
    /\ ret = None
    /\ prev = None

\* Parameter.from_dict_xml(data)
CallParameterFromDictXml ==
    /\ op = "start"
    /\ \E data \in XmlParameterDicts :
          /\ op' = "Parameter.from_dict_xml"
          /\ arg' = data
          /\ ret' = Parameter_from_dict_xml(data)
    /\ UNCHANGED self
    /\ prev' = self

\* ParameterList(parameters, covariance)
CallParameterListInit ==
    /\ op = "start"
    /\ \E ps \in SeqsOf(ParameterPool, 0, MaxParams), cov \in CovariancePool :
          /\ self' = ParameterList(ps, cov)
          /\ op' = "ParameterList.__init__"
          /\ arg' = List(ps)
          /\ ret' = None
    /\ prev' = self

\* self[name]
CallGetItem ==
    /\ self.cls = "ParameterList"
    /\ \E name \in LookupNames :
          /\ op' = "ParameterList.__getitem__"
          /\ arg' = Str(name)
          /\ ret' = ParameterList_getitem(self, name)
    /\ UNCHANGED self
    /\ prev' = self

\* self.set_parameter_errors(errors)
CallSetParameterErrors ==
    /\ self.cls = "ParameterList"
    /\ \E errors \in ErrorMappings :
          /\ op' = "ParameterList.set_parameter_errors"
          /\ arg' = Dict(errors)
          /\ self' = ParameterList_set_parameter_errors(self, errors)
          /\ ret' = FirstError(ErrorValues(self, errors))
    /\ prev' = self

\* self._ufloats
CallUfloats ==
    /\ self.cls = "ParameterList"
    /\ \E r \in ParameterList_ufloats(self) :
          /\ op' = "ParameterList._ufloats"
          /\ arg' = None
          /\ ret' = r
    /\ UNCHANGED self
    /\ prev' = self

\* SpectralModel.from_xml_dict(data)
CallSpectralFromXmlDict ==
    /\ op = "start"
    /\ \E data \in XmlSpectra :
          /\ op' = "SpectralModel.from_xml_dict"
          /\ arg' = data
          /\ ret' = SpectralModel_from_xml_dict(data)
    /\ UNCHANGED self
    /\ prev' = self

\* SpatialModel.from_xml_dict(data)
CallSpatialFromXmlDict ==
    /\ op = "start"
    /\ \E data \in XmlSpatials :
          /\ op' = "SpatialModel.from_xml_dict"
          /\ arg' = data
          /\ ret' = SpatialModel_from_xml_dict(data)
    /\ UNCHANGED self
    /\ prev' = self

\* SpectralModel.from_gammacat(source)
CallSpectralFromGammacat ==
    /\ op = "start"
    /\ \E source \in CatalogSources :
          /\ op' = "SpectralModel.from_gammacat"
          /\ arg' = source
          /\ ret' = SpectralModel_from_gammacat(source)
    /\ UNCHANGED self
    /\ prev' = self

\* SpatialModel.from_gammacat(source)
CallSpatialFromGammacat ==
    /\ op = "start"
    /\ \E source \in CatalogSources :
          /\ op' = "SpatialModel.from_gammacat"
          /\ arg' = source
          /\ ret' = SpatialModel_from_gammacat(source)
    /\ UNCHANGED self
    /\ prev' = self

\* SpatialModelShell.from_gammacat(source)
CallShellFromGammacat ==
    /\ op = "start"
    /\ \E source \in CatalogSources :
          /\ op' = "SpatialModelShell.from_gammacat"
          /\ arg' = source
          /\ ret' = SpatialModelShell_from_gammacat(source)
    /\ UNCHANGED self
    /\ prev' = self

\* SourceModel.from_gammacat(source)
CallSourceModelFromGammacat ==
    /\ op = "start"
    /\ \E source \in CatalogSources :
          /\ op' = "SourceModel.from_gammacat"
          /\ arg' = source
          /\ ret' = SourceModel_from_gammacat(source)
    /\ UNCHANGED self
    /\ prev' = self

\* SourceModel.from_xml_dict(data)
CallSourceModelFromXmlDict ==
    /\ op = "start"
    /\ \E data \in XmlSources :
          /\ op' = "SourceModel.from_xml_dict"
          /\ arg' = data
          /\ ret' = SourceModel_from_xml_dict(data)
    /\ UNCHANGED self
    /\ prev' = self

\* SourceLibrary(source_list)
CallSourceLibraryInit ==
    /\ op = "start"
    /\ \E source_list \in SeqsOf(SourceModelPool, 0, MaxSources) :
          /\ self' = SourceLibrary(source_list)
          /\ op' = "SourceLibrary.__init__"
          /\ arg' = List(source_list)
          /\ ret' = None
    /\ prev' = self

\* SourceLibrary.from_list_of_dict(data)
CallFromListOfDict ==
    /\ op = "start"
    /\ \E data \in SeqsOf(LibraryEntries, 0, MaxSources) :
          /\ op' = "SourceLibrary.from_list_of_dict"
          /\ arg' = List(data)
          /\ ret' = SourceLibrary_from_list_of_dict(List(data))
    /\ UNCHANGED self
    /\ prev' = self

\* self.to_xml(title, header)
CallToXml ==
    /\ self.cls = "SourceLibrary"
    /\ \E title \in Titles, header \in Headers :
          /\ op' = "SourceLibrary.to_xml"
          /\ arg' = Dict([k \in {"title", "header"} |->
                             IF k = "title" THEN title ELSE header])
          /\ ret' = SourceLibrary_to_xml(self, title, header)
    /\ UNCHANGED self
    /\ prev' = self

\* SourceLibrary.from_xml(xml), xml the document to_xml has just returned
CallFromXml ==
    /\ op = "SourceLibrary.to_xml"
    /\ op' = "SourceLibrary.from_xml"
    /\ arg' = ret
    /\ ret' = SourceLibrary_from_xml(ret)
    /\ UNCHANGED self
    /\ prev' = self

Next ==
    \/ CallParameterFromDictXml
    \/ CallParameterListInit
    \/ CallGetItem
    \/ CallSetParameterErrors
    \/ CallUfloats
    \/ CallSpectralFromXmlDict
    \/ CallSpatialFromXmlDict
    \/ CallSpectralFromGammacat
    \/ CallSpatialFromGammacat
    \/ CallShellFromGammacat
    \/ CallSourceModelFromGammacat
    \/ CallSourceModelFromXmlDict
    \/ CallSourceLibraryInit
    \/ CallFromListOfDict
    \/ CallToXml
    \/ CallFromXml

Spec == Init /\ [][Next]_vars

(***************************************************************************)
(* The properties.                                                         *)
(***************************************************************************)
\* the number a decimal text denotes, for the texts of the inputs
NumericTexts ==
    {<<"1", ".", "5">>, <<"-", "2", ".", "3">>, <<"1">>, <<"2", ".", "0">>,
     <<"2">>, <<"0", ".", "5">>, <<"0">>, <<"-", "1", ".", "5">>,
     <<"1", "8", "4", ".", "0">>, <<"-", "5", ".", "0">>}

NumericValue(text) ==
    CASE text = <<"1", ".", "5">>           -> (3 * Scale) \div 2
      [] text = <<"-", "2", ".", "3">>      -> 0 - ((23 * Scale) \div 10)
      [] text = <<"1">>                     -> Scale
      [] text = <<"2", ".", "0">>           -> 2 * Scale
      [] text = <<"2">>                     -> 2 * Scale
      [] text = <<"0", ".", "5">>           -> Scale \div 2
      [] text = <<"0">>                     -> 0
      [] text = <<"-", "1", ".", "5">>      -> 0 - ((3 * Scale) \div 2)
      [] text = <<"1", "8", "4", ".", "0">> -> 184 * Scale
      [] text = <<"-", "5", ".", "0">>      -> 0 - (5 * Scale)

\* a <parameter> dict with a name and a numeric value
WellFormedParameter(d) ==
    /\ d.cls = "dict"
    /\ HasKey(d, "@name")
    /\ HasKey(d, "@value")
    /\ d.kv["@value"] \in NumericTexts

\* the (name, value, unit) triple a <parameter> dict states
StatedTriple(d) ==
    <<d.kv["@name"], NumericValue(d.kv["@value"]),
      IF HasKey(d, "@unit") THEN d.kv["@unit"] ELSE "">>

\* the (name, value, unit) triples of a model's parameter list
Triples(model) ==
    [i \in 1..Len(model.parameters.parameters) |->
        Triple(model.parameters.parameters[i])]

\* an element whose "parameter" is a list of well-formed <parameter> dicts
WellFormedParameters(data) ==
    /\ HasKey(data, "parameter")
    /\ data.kv["parameter"].cls = "list"
    /\ \A i \in 1..Len(data.kv["parameter"].items) :
          WellFormedParameter(data.kv["parameter"].items[i])

SpectralClassOfTag(tag) ==
    CASE tag = "PowerLaw"  -> "SpectralModelPowerLaw"
      [] tag = "PowerLaw2" -> "SpectralModelPowerLaw2"
      [] tag = "ExpCutoff" -> "SpectralModelExpCutoff"

SpectralTags == {"PowerLaw", "PowerLaw2", "ExpCutoff"}

\* C2: SpectralModel.from_xml_dict on an element whose @type is PowerLaw,
\* PowerLaw2 or ExpCutoff and whose parameters are a list of (name, value,
\* unit) entries returns the matching variant, whose parameter list holds
\* exactly those triples, in the input order, values and signs unchanged
\* (a missing unit reads as the empty string).
Thm_C2 ==
    (/\ op = "SpectralModel.from_xml_dict"
     /\ HasKey(arg, "@type")
     /\ arg.kv["@type"] \in SpectralTags
     /\ WellFormedParameters(arg))
    => /\ ret.cls = SpectralClassOfTag(arg.kv["@type"])
       /\ ret.parameters.cls = "ParameterList"
       /\ Triples(ret) =
             [i \in 1..Len(arg.kv["parameter"].items) |->
                 StatedTriple(arg.kv["parameter"].items[i])]

\* a PowerLaw2 element with two different parameters, the second negative
Wit_C2 ==
    /\ op = "SpectralModel.from_xml_dict"
    /\ ret.cls = "SpectralModelPowerLaw2"
    /\ Len(ret.parameters.parameters) = 2
    /\ ret.parameters.parameters[1].name = "Scale"
    /\ ret.parameters.parameters[1].unit = ""
    /\ ret.parameters.parameters[2].name = "Index"
    /\ ret.parameters.parameters[2].value.k < 0

\* C4: lookup by name returns the first Parameter, in list order, with that
\* name; when there is none it raises IndexError whose message is formatted
\* from the name and the list's string representation.
Thm_C4 ==
    op = "ParameterList.__getitem__"
    => LET ps   == self.parameters
           hits == {i \in 1..Len(ps) : ps[i].name = arg.s}
       IN  IF hits # {}
           THEN \E i \in hits :
                   /\ \A j \in hits : i <= j
                   /\ ret = ps[i]
           ELSE /\ ret.cls = "IndexError"
                /\ ret.fmt = List(<<arg, ParameterList_str(self)>>)

\* a lookup that succeeds on a list holding the name twice, with two values
Wit_C4 ==
    /\ op = "ParameterList.__getitem__"
    /\ ret.cls = "Parameter"
    /\ Len(self.parameters) = 2
    /\ self.parameters[1].name = self.parameters[2].name
    /\ self.parameters[1] # self.parameters[2]

\* the error given for a parameter, in the parameter's unit, squared
SquaredError(par, errors) ==
    IF par.name \in DOMAIN errors
    THEN LET e == (errors[par.name].value.k * UnitFactor(errors[par.name].unit))
                      \div UnitFactor(par.unit)
         IN  (e * e) \div Scale
    ELSE 0

\* C5: set_parameter_errors(errors), when every given error can be expressed
\* in its parameter's unit, sets the covariance to the len(parameters)
\* square matrix whose i-th diagonal entry is the squared error given for
\* the i-th parameter's name, in that parameter's unit, 0 for a name absent
\* from the mapping, and whose other entries are 0.
Thm_C5 ==
    (op = "ParameterList.set_parameter_errors" /\ ret = None)
    => LET ps == self.parameters
       IN  /\ self.covariance.cls = "ndarray"
           /\ Len(self.covariance.a) = Len(ps)
           /\ \A i \in 1..Len(ps) :
                 /\ Len(self.covariance.a[i]) = Len(ps)
                 /\ \A j \in 1..Len(ps) :
                       self.covariance.a[i][j] =
                           IF i = j THEN SquaredError(ps[i], arg.kv) ELSE 0

\* [reference, amplitude] with errors {index: 0.5, reference: 500 GeV}: an
\* error converted to TeV whose square differs from it, and a defaulted one
Wit_C5 ==
    /\ op = "ParameterList.set_parameter_errors"
    /\ ret = None
    /\ Len(self.parameters) = 2
    /\ self.parameters[1].name = "reference"
    /\ self.parameters[2].name = "amplitude"
    /\ "reference" \in DOMAIN arg.kv
    /\ self.covariance.a[1][1] = Scale \div 4
    /\ self.covariance.a[2][2] = 0

\* C9: SpatialModelShell.from_gammacat gives exactly [GLON, GLAT, Radius,
\* Width], Radius with the value and unit of morph_sigma, Width 0 deg.
Thm_C9 ==
    op = "SpatialModelShell.from_gammacat"
    => LET d == arg.data
       IN  /\ ret.cls = "SpatialModelShell"
           /\ Triples(ret) =
                 <<<<"GLON", d.glon.value.k, d.glon.unit>>,
                   <<"GLAT", d.glat.value.k, d.glat.unit>>,
                   <<"Radius", d.morph_sigma.value.k, d.morph_sigma.unit>>,
                   <<"Width", 0, "deg">>>>

\* the shell of a record with morph_sigma = 0.3 deg
Wit_C9 ==
    /\ op = "SpatialModelShell.from_gammacat"
    /\ arg.data.morph_sigma = Quantity(Float((3 * Scale) \div 10), "deg")
    /\ Len(ret.parameters.parameters) = 4
    /\ ret.parameters.parameters[3].name = "Radius"

\* C10: Parameter.from_dict_xml gives the Parameter named data['@name'],
\* valued the number data['@value'] denotes, with unit data['@unit'] or ''
\* when that key is absent; without '@name' or '@value' it raises KeyError.
Thm_C10 ==
    op = "Parameter.from_dict_xml"
    => IF HasKey(arg, "@name") /\ HasKey(arg, "@value")
       THEN arg.kv["@value"] \in NumericTexts
            => /\ ret.cls = "Parameter"
               /\ Triple(ret) = StatedTriple(arg)
       ELSE ret.cls = "KeyError"

\* a Parameter built from a dict without '@unit'
Wit_C10 ==
    /\ op = "Parameter.from_dict_xml"
    /\ ~HasKey(arg, "@unit")
    /\ ret.cls = "Parameter"
    /\ ret.unit = ""

\* C1 (as stated): from_xml(lib.to_xml()) of a library of N >= 1 sources is
\* a library of N sources, in the same order, each with the same name, the
\* same type and the same (name, value, unit) triples in its spectral and in
\* its spatial model.
Claim_C1 ==
    (op = "SourceLibrary.from_xml" /\ Len(self.source_list) >= 1)
    => /\ ret.cls = "SourceLibrary"
       /\ Len(ret.source_list) = Len(self.source_list)
       /\ \A i \in 1..Len(self.source_list) :
             LET old == self.source_list[i]
                 new == ret.source_list[i]
             IN  /\ new.source_name = old.source_name
                 /\ new.source_type = old.source_type
                 /\ Triples(new.spectral_model) = Triples(old.spectral_model)
                 /\ Triples(new.spatial_model) = Triples(old.spatial_model)

\* the four dispatchers, and the tag of the call when it matches no variant
UnmatchedTag ==
    CASE op = "SpectralModel.from_xml_dict"
           /\ HasKey(arg, "@type") /\ arg.kv["@type"] \notin SpectralTags
           -> {arg.kv["@type"]}
      [] op = "SpatialModel.from_xml_dict"
           /\ HasKey(arg, "@type")
           /\ arg.kv["@type"] \notin
                 {"Point", "Gauss", "Gaussian", "Shell", "RadialShell"}
           -> {arg.kv["@type"]}
      [] op = "SpectralModel.from_gammacat"
           /\ arg.spectral_model # None
           /\ arg.spectral_model.name \notin
                 {"PowerLaw", "PowerLaw2", "ExponentialCutoffPowerLaw"}
           -> {arg.spectral_model.name}
      [] op = "SpatialModel.from_gammacat"
           /\ arg.data.morph_type \notin {"point", "gauss", "shell"}
           -> {arg.data.morph_type}
      [] OTHER -> {}

\* the message of exception e is formatted from the tag, or from the dict
\* or the catalog record that holds it
NamesTag(e, tag) ==
    \/ e.fmt = Str(tag)
    \/ e.fmt.cls = "dict" /\ e.fmt.name = tag
    \/ e.fmt.cls = "SourceCatalogObject" /\ e.fmt.data.morph_type = tag

\* C3 (as stated): in each of the four dispatchers a tag that matches no
\* variant raises UnknownModelError, its message naming the tag.
Claim_C3 ==
    \A tag \in UnmatchedTag :
        ret.cls = "UnknownModelError" /\ NamesTag(ret, tag)

\* every catalog parameter has a numeric val
NumericCatalogParameters(data) ==
    \A i \in 1..Len(data.parameters) : data.parameters[i].val \in NumericTexts

\* C3 (amended): a tag that matches no variant never yields a model.  The
\* two spatial dispatchers raise UnknownModelError, formatted from the tag
\* (XML) or from the catalog record (gammacat).  The two spectral
\* dispatchers convert the parameters before they look at the tag: they
\* raise UnknownModelError, formatted from the tag (XML) or from the
\* spectral dict (gammacat), when that conversion succeeds, and the
\* conversion's own KeyError / ValueError / AttributeError when it fails.
Thm_C3 ==
    \A tag \in UnmatchedTag :
        /\ IsError(ret)
        /\ op = "SpatialModel.from_xml_dict"
             => ret.cls = "UnknownModelError" /\ ret.fmt = Str(tag)
        /\ op = "SpatialModel.from_gammacat"
             => ret.cls = "UnknownModelError" /\ ret.fmt = arg
        /\ op = "SpectralModel.from_xml_dict"
             => IF WellFormedParameters(arg)
                THEN ret.cls = "UnknownModelError" /\ ret.fmt = Str(tag)
                ELSE ret.cls \in {"KeyError", "ValueError", "AttributeError"}
        /\ op = "SpectralModel.from_gammacat"
             => IF NumericCatalogParameters(arg.spectral_model)
                THEN ret.cls = "UnknownModelError" /\ ret.fmt = arg.spectral_model
                ELSE ret.cls = "ValueError"

\* an XML spatial element tagged "Bogus", refused
Wit_C3 ==
    /\ op = "SpatialModel.from_xml_dict"
    /\ UnmatchedTag = {"Bogus"}
    /\ ret.cls = "UnknownModelError"
    /\ Len(arg.kv["parameter"].items) > 0

SpatialClassOfTag(tag) ==
    CASE tag = "Point"                   -> "SpatialModelPoint"
      [] tag \in {"Gauss", "Gaussian"}   -> "SpatialModelGauss"
      [] tag \in {"Shell", "RadialShell"} -> "SpatialModelShell"
      [] OTHER                           -> "none"

\* the container the selection of lines 331-336 is stated to use
StatedContainer(data) ==
    IF HasKey(data, "radialModel") THEN data.kv["radialModel"]
    ELSE data.kv["spatialModel"]

NoContainer(data) == ~HasKey(data, "radialModel") /\ ~HasKey(data, "spatialModel")

\* C6 (as stated): 'radialModel' is used when present, else 'spatialModel';
\* with neither, construction raises UnknownModelError('No spatial / radial
\* model found') and returns no SourceModel.
Claim_C6 ==
    op = "SourceModel.from_xml_dict"
    => IF NoContainer(arg)
       THEN /\ ret.cls = "UnknownModelError"
            /\ ret.text = "No spatial / radial model found for: {}"
       ELSE ret.cls = "SourceModel"
            => ret.spatial_model.cls =
                  SpatialClassOfTag(StatedContainer(arg).kv["@type"])

\* the entry's '@name', '@type' and 'spectrum' are there and the spectral
\* model can be built from the spectrum
SpectrumBuilds(data) ==
    /\ HasKey(data, "@name")
    /\ HasKey(data, "@type")
    /\ HasKey(data, "spectrum")
    /\ HasKey(data.kv["spectrum"], "@type")
    /\ data.kv["spectrum"].kv["@type"] \in SpectralTags
    /\ WellFormedParameters(data.kv["spectrum"])

\* C6 (amended): SourceModel.from_xml_dict reads '@name', '@type' and
\* 'spectrum' and builds the spectral model first; an error of these steps
\* surfaces whatever the containers are.  After them, 'radialModel' is used
\* when present (also beside 'spatialModel'), else 'spatialModel', and with
\* neither key it raises UnknownModelError('No spatial / radial model found
\* for: <entry>').  With neither key no SourceModel is ever returned.
Thm_C6 ==
    op = "SourceModel.from_xml_dict"
    => /\ NoContainer(arg) => IsError(ret)
       /\ ~SpectrumBuilds(arg) => IsError(ret)
       /\ SpectrumBuilds(arg)
            => IF NoContainer(arg)
               THEN /\ ret.cls = "UnknownModelError"
                    /\ ret.text = "No spatial / radial model found for: {}"
                    /\ ret.fmt = arg
               ELSE LET tag == StatedContainer(arg).kv["@type"]
                    IN  IF SpatialClassOfTag(tag) = "none"
                        THEN ret.cls = "UnknownModelError" /\ ret.fmt = Str(tag)
                        ELSE /\ ret.cls = "SourceModel"
                             /\ ret.spatial_model.cls = SpatialClassOfTag(tag)

\* an entry with both containers, of different types: the radial one wins
Wit_C6 ==
    /\ op = "SourceModel.from_xml_dict"
    /\ HasKey(arg, "radialModel")
    /\ HasKey(arg, "spatialModel")
    /\ arg.kv["radialModel"].kv["@type"] = "Gaussian"
    /\ arg.kv["spatialModel"].kv["@type"] = "Point"
    /\ ret.cls = "SourceModel"
    /\ ret.spatial_model.cls = "SpatialModelGauss"

\* C7 (as stated): the source_type of a SourceModel built by from_gammacat
\* is the catalog record's morph_type.
Claim_C7 ==
    (op = "SourceModel.from_gammacat" /\ ret.cls = "SourceModel")
    => ret.source_type = arg.data.morph_type

\* C7 (amended): the source_type of a SourceModel built by from_gammacat is
\* the xml_source_type constant of the spatial variant that morph_type
\* selects: 'PointSource' for 'point', 'ExtendedSource' for 'gauss' and
\* 'shell'.
Thm_C7 ==
    (op = "SourceModel.from_gammacat" /\ ret.cls = "SourceModel")
    => ret.source_type =
          CASE arg.data.morph_type = "point" -> "PointSource"
            [] arg.data.morph_type = "gauss" -> "ExtendedSource"
            [] arg.data.morph_type = "shell" -> "ExtendedSource"

\* a SourceModel built from a 'gauss' record
Wit_C7 ==
    /\ op = "SourceModel.from_gammacat"
    /\ ret.cls = "SourceModel"
    /\ arg.data.morph_type = "gauss"
    /\ ret.spatial_model.cls = "SpatialModelGauss"

\* the val text of the catalog parameter called name
CatalogVal(data, name) ==
    LET i == CHOOSE i \in 1..Len(data.parameters) : data.parameters[i].name = name
    IN  data.parameters[i].val

\* the value of the model parameter called name
ValueOf(model, name) ==
    LET ps == model.parameters.parameters
        i  == CHOOSE i \in 1..Len(ps) : ps[i].name = name
    IN  ps[i].value.k

\* C8 (as stated): for the catalog models PowerLaw, PowerLaw2 and
\* ExponentialCutoffPowerLaw the Index value is minus the catalog index,
\* and the Cutoff of the exponential cutoff is 1 / lambda_.
Claim_C8 ==
    (op = "SpectralModel.from_gammacat" /\ ret.cls \in SpectralClasses)
    => LET data == arg.spectral_model
       IN  /\ ValueOf(ret, "Index") = 0 - NumericValue(CatalogVal(data, "index"))
           /\ ret.cls = "SpectralModelExpCutoff"
                => ValueOf(ret, "Cutoff") * NumericValue(CatalogVal(data, "lambda_"))
                      = Scale * Scale

\* the error _ufloats raises for a LinAlgError
CovarianceNotSet(r) ==
    r.cls = "ValueError" /\ r.text = "Covariance matrix not set."

\* a square matrix with a row of zeros: its determinant is zero
SingularCovariance(c) ==
    /\ c # None
    /\ IsSquare(c)
    /\ \E i \in 1..Len(c.a) : \A j \in 1..Len(c.a) : c.a[i][j] = 0

Thm_C12 ==
    op = "SourceLibrary.to_xml" =>
        /\ ret.declaration = "<?xml version=\"1.0\" ?>"
        /\ ret.header = arg.kv["header"]
        /\ ret.root.tag = "source_library"
        /\ DOMAIN ret.root.attrs = {"title"}
        /\ ret.root.attrs["title"] = arg.kv["title"]
        /\ Len(ret.root.children) = Len(self.source_list)
        /\ \A i \in 1..Len(self.source_list) :
              LET source == self.source_list[i]
                  block  == ret.root.children[i]
              IN  /\ block.tag = "source"
                  /\ block.attrs["name"] = source.source_name
                  /\ block.attrs["type"] = source.source_type
                  /\ Len(block.children) = 2
                  /\ block.children[1].tag = "spectrum"
                  /\ block.children[1].attrs["type"] =
                        xml_type(source.spectral_model.cls)
                  /\ Len(block.children[1].children) =
                        Len(source.spectral_model.parameters.parameters)
                  /\ block.children[2].tag = "spatialModel"
                  /\ block.children[2].attrs["type"] =
                        xml_type(source.spatial_model.cls)
                  /\ Len(block.children[2].children) =
                        Len(source.spatial_model.parameters.parameters)

\* a library of two different sources has been rendered
Wit_C12 ==
    /\ op = "SourceLibrary.to_xml"
    /\ Len(self.source_list) = 2
    /\ self.source_list[1] # self.source_list[2]
    /\ arg.kv["title"] = "gammacat"
    /\ Len(ret.root.children) = 2

\* the entry has an unknown spectral type, an unknown spatial type or no
\* container, or its spectrum cannot be read
EntryFails(data) ==
    \/ ~SpectrumBuilds(data)
    \/ NoContainer(data)
    \/ SpatialClassOfTag(StatedContainer(data).kv["@type"]) = "none"

\* e is the error building the entry raises
OriginatesFrom(e, data) ==
    LET spectrum == data.kv["spectrum"]
    IN  IF ~SpectrumBuilds(data)
        THEN IF spectrum.kv["@type"] \notin SpectralTags
                /\ WellFormedParameters(spectrum)
             THEN e.cls = "UnknownModelError" /\ e.fmt = Str(spectrum.kv["@type"])
             ELSE IsError(e)
        ELSE IF NoContainer(data)
        THEN /\ e.cls = "UnknownModelError"
             /\ e.text = "No spatial / radial model found for: {}"
             /\ e.fmt = data
        ELSE /\ e.cls = "UnknownModelError"
             /\ e.fmt = Str(StatedContainer(data).kv["@type"])

\* C13: SourceLibrary.from_list_of_dict never returns a partial library: when
\* building an entry fails (unknown spectral type, unknown spatial type or
\* missing container) the error of the first such entry propagates and no
\* SourceLibrary is returned, however many earlier entries succeeded; when
\* none fails the library holds one source per entry.
Thm_C13 ==
    op = "SourceLibrary.from_list_of_dict" =>
        LET bad == {i \in 1..Len(arg.items) : EntryFails(arg.items[i])}
        IN  IF bad # {}
            THEN /\ ret.cls # "SourceLibrary"
                 /\ IsError(ret)
                 /\ OriginatesFrom(ret,
                        arg.items[CHOOSE i \in bad : \A j \in bad : i <= j])
            ELSE /\ ret.cls = "SourceLibrary"
                 /\ Len(ret.source_list) = Len(arg.items)

\* the last entry of a list fails after an earlier one was built: an unknown
\* spatial type
Wit_C13 ==
    /\ op = "SourceLibrary.from_list_of_dict"
    /\ Len(arg.items) = 2
    /\ ~EntryFails(arg.items[1])
    /\ SpectrumBuilds(arg.items[2])
    /\ ~NoContainer(arg.items[2])
    /\ StatedContainer(arg.items[2]).kv["@type"] = "Bogus"
    /\ ret.cls = "UnknownModelError"
    /\ ret.fmt = Str("Bogus")

\* C14: SpatialModel.from_xml_dict on an element whose @type is an accepted
\* alias ('Point'; 'Gauss' or 'Gaussian'; 'Shell' or 'RadialShell') and whose
\* parameters are a list of (name, value, unit) entries returns the variant
\* of the alias, whose parameter list holds those triples in input order.
Claim_C14 ==
    (/\ op = "SpatialModel.from_xml_dict"
     /\ HasKey(arg, "@type")
     /\ SpatialClassOfTag(arg.kv["@type"]) # "none"
     /\ WellFormedParameters(arg))
    => /\ ret.cls = SpatialClassOfTag(arg.kv["@type"])
       /\ Triples(ret) =
             [i \in 1..Len(arg.kv["parameter"].items) |->
                 StatedTriple(arg.kv["parameter"].items[i])]

\* the source-type constant the variants declare
SourceTypeOfSpatial(cls) ==
    IF cls = "SpatialModelPoint" THEN "PointSource" ELSE "ExtendedSource"

\* C15, as stated: every SourceModel produced by from_gammacat or by
\* from_xml_dict has the source_type its own spatial model declares:
\* 'PointSource' for Point, 'ExtendedSource' for Gauss and Shell.
Claim_C15 ==
    (/\ op \in {"SourceModel.from_gammacat", "SourceModel.from_xml_dict"}
     /\ ret.cls = "SourceModel")
    => ret.source_type = SourceTypeOfSpatial(ret.spatial_model.cls)

\* C15, amended: a SourceModel produced by from_gammacat has the source_type
\* its own spatial model declares; one produced by from_xml_dict has the
\* entry's '@type' attribute as its source_type, whatever its spatial model.
Thm_C15 ==
    /\ (op = "SourceModel.from_gammacat" /\ ret.cls = "SourceModel")
       => ret.source_type = SourceTypeOfSpatial(ret.spatial_model.cls)
    /\ (op = "SourceModel.from_xml_dict" /\ ret.cls = "SourceModel")
       => ret.source_type = arg.kv["@type"]

\* an entry typed 'PointSource' has been read with a Gaussian spatial model
Wit_C15 ==
    /\ op = "SourceModel.from_xml_dict"
    /\ ret.cls = "SourceModel"
    /\ ret.spatial_model.cls = "SpatialModelGauss"
    /\ arg.kv["@type"] = "PointSource"
    /\ ret.source_type = "PointSource"

\* the covariance is absent or has a row and a column per parameter
Aligned(pl) ==
    \/ pl.covariance = None
    \/ /\ Len(pl.covariance.a) = Len(pl.parameters)
       /\ IsSquare(pl.covariance)

\* C16, as stated: in every state of a ParameterList, after construction
\* with any arguments and after any set_parameter_errors calls, the
\* covariance is absent or a square matrix with a row and a column per
\* parameter.
Claim_C16 == self.cls = "ParameterList" => Aligned(self)

\* C16, amended: every set_parameter_errors call that returns leaves a
\* square covariance with a row and a column per parameter, and no call on
\* a ParameterList whose covariance is absent or so aligned misaligns it;
\* the constructor stores its covariance argument unchecked.
Thm_C16 ==
    [][/\ (op' = "ParameterList.set_parameter_errors" /\ ret' = None)
            => /\ self'.covariance # None
               /\ Aligned(self')
       /\ (self.cls = "ParameterList" /\ Aligned(self)) => Aligned(self')
       /\ (self.cls = "ParameterList") => self'.parameters = self.parameters
      ]_vars

\* two errors have been set on a list of two parameters that was constructed
\* with the default covariance
Wit_C16 ==
    /\ op = "ParameterList.set_parameter_errors"
    /\ ret = None
    /\ Len(self.parameters) = 2
    /\ Cardinality(DOMAIN arg.kv) = 2
    /\ Len(self.covariance.a) = 2
    /\ Len(self.covariance.a[1]) = 2
    /\ self.covariance.a[1][1] # 0

\* the positions of the parameters of self that carry the looked-up name
LookupHits == {i \in 1..Len(self.parameters) : self.parameters[i].name = arg.s}

\* C17, as stated: a lookup by name finds exactly one Parameter with that
\* name or fails; it never succeeds on a list in which two or more
\* parameters carry the name.
Claim_C17 ==
    op = "ParameterList.__getitem__"
    => IF Cardinality(LookupHits) = 1
       THEN \E i \in LookupHits : ret = self.parameters[i]
       ELSE IsError(ret)

\* C17, amended: a lookup by name fails exactly when no parameter carries
\* the name; when one or more carry it the lookup succeeds and returns a
\* parameter of that name, the earliest in list order when there are several.
Thm_C17 ==
    op = "ParameterList.__getitem__"
    => /\ IsError(ret) <=> LookupHits = {}
       /\ LookupHits # {} =>
             /\ ret.cls = "Parameter"
             /\ ret.name = arg.s
             /\ \E i \in LookupHits :
                   /\ ret = self.parameters[i]
                   /\ \A j \in 1..(i - 1) : self.parameters[j].name # arg.s

\* 'index' has been looked up in a list of two different 'index' parameters
\* and the first has come back
Wit_C17 ==
    /\ op = "ParameterList.__getitem__"
    /\ arg.s = "index"
    /\ Cardinality(LookupHits) = 2
    /\ ret = self.parameters[1]
    /\ ret # self.parameters[2]

\* the diagonal matrix of the squared errors of the parameters ps
ErrorCovariance(ps, errors) ==
    NdArray([i \in 1..Len(ps) |->
                [j \in 1..Len(ps) |->
                    IF i = j THEN SquaredError(ps[i], errors) ELSE 0]])

\* C18: set_parameter_errors changes only the covariance: the parameters,
\* with their names, values, units, bounds and frozen flags, are as before
\* the call, and the covariance stored before it, off-diagonal entries
\* included, is replaced by a matrix that depends only on the parameters and
\* the error mapping.  (A call that raises changes nothing.)
Thm_C18 ==
    op = "ParameterList.set_parameter_errors"
    => /\ self.cls = "ParameterList"
       /\ self.parameters = prev.parameters
       /\ ret = None => self.covariance = ErrorCovariance(prev.parameters, arg.kv)
       /\ ret # None => self = prev

\* errors have been set on a list of two parameters that held a covariance
\* with off-diagonal entries
Wit_C18 ==
    /\ op = "ParameterList.set_parameter_errors"
    /\ ret = None
    /\ Len(self.parameters) = 2
    /\ prev.covariance # None
    /\ Len(prev.covariance.a) = 2
    /\ prev.covariance.a[1][2] # 0
    /\ self.covariance.a[1][2] = 0
    /\ self.covariance # prev.covariance
    /\ self.parameters[1].frozen = prev.parameters[1].frozen

\* the test a dispatcher makes of a variant: the spectral one compares the
\* tag with xml_type, the spatial one looks it up in xml_types
Accepts(cls, tag) ==
    IF cls \in SpectralClasses THEN tag = xml_type(cls)
    ELSE tag \in xml_types(cls)

\* the orders in which the variants of a family can be tried
Orders(family) ==
    {order \in [1..Cardinality(family) -> family] :
        \A i, j \in 1..Cardinality(family) : i # j => order[i] # order[j]}

\* the variant an if/elif chain over order selects for tag
FirstAccepting(order, tag) ==
    LET hits == {i \in 1..Len(order) : Accepts(order[i], tag)}
    IN  IF hits = {} THEN "none"
        ELSE order[CHOOSE i \in hits : \A j \in hits : i <= j]

\* the family of the XML dispatcher that was called
DispatchFamily ==
    IF op = "SpectralModel.from_xml_dict" THEN SpectralClasses ELSE SpatialClasses

\* C19: within each family the XML tag sets of the variants are pairwise
\* disjoint, so the tag of an XML dispatch is accepted by at most one
\* variant and the dispatch returns the same variant, or fails as unknown,
\* in whatever order the variants are tried.
Thm_C19 ==
    (/\ op \in {"SpectralModel.from_xml_dict", "SpatialModel.from_xml_dict"}
     /\ HasKey(arg, "@type"))
    => LET family == DispatchFamily
           tag    == arg.kv["@type"]
       IN  /\ \A c1, c2 \in family :
                 c1 # c2 => xml_types(c1) \cap xml_types(c2) = {}
           /\ Cardinality({c \in family : Accepts(c, tag)}) <= 1
           /\ ret.cls \in family =>
                 \A order \in Orders(family) : FirstAccepting(order, tag) = ret.cls
           /\ ret.cls = "UnknownModelError" =>
                 \A order \in Orders(family) : FirstAccepting(order, tag) = "none"

\* the alias 'RadialShell' has selected the Shell variant, the last one the
\* dispatcher tries
Wit_C19 ==
    /\ op = "SpatialModel.from_xml_dict"
    /\ HasKey(arg, "@type")
    /\ arg.kv["@type"] = "RadialShell"
    /\ ret.cls = "SpatialModelShell"
    /\ FirstAccepting(<<"SpatialModelShell", "SpatialModelGauss",
                        "SpatialModelPoint">>, "RadialShell") = ret.cls

=============================================================================
